---- MODULE Spec2Model ----
(***************************************************************************)
(* Model of the two orchestration scripts of repo_daily_reload:            *)
(*   sync_repos.py   (Azure DevOps projects -> IQ Server applications)     *)
(*   cleanup_tool.py (bulk deletion of IQ Server applications)             *)
(* One run of one tool is modelled: initialisation, the run loop over the  *)
(* loaded organizations, and Sync.sync / Cleanup.cleanup step by step, one *)
(* action per remote call. The outcome of every remote call is chosen by   *)
(* the environment. The scan server is modelled as a store of applications.*)
(***************************************************************************)
EXTENDS Naturals, Sequences, FiniteSets

\* ---------------------------------------------------------------- bounds
MaxOrgs == 2        \* records in the organization file
MaxProjects == 2    \* projects returned by the source-control host
MaxApps == 2        \* applications on the scan server before the run
MaxFailures == 2    \* remote calls of a run that do not answer with success

\* ---------------------------------------------------------------- strings
\* Strings are sequences of characters. A project description is a string,
\* absent (None), or a JSON value that is not a string (a number).
Str(s) == [kind |-> "str", text |-> s]
DescNone == [kind |-> "none", text |-> << >>]
DescNumber == [kind |-> "number", text |-> << >>]

\* The literal tag of the marker, the text before {chinese_name} in the f-string.
Label == <<"#">>

\* Python's `needle in hay` for two strings.
Contains(needle, hay) ==
  \E k \in 0..Len(hay) :
     /\ k + Len(needle) <= Len(hay)
     /\ SubSeq(hay, k + 1, k + Len(needle)) = needle

\* f"<label>{chinese_name}"
Marker(chinese_name) == Label \o chinese_name

\* ---------------------------------------------------------------- inputs
\* Records of the organization file: id 0 stands for a missing or empty id,
\* the empty sequence for a missing or empty chineseName.
OrgPool ==
  { [id |-> 1, chineseName |-> <<"a">>],
    [id |-> 2, chineseName |-> <<"a", "b">>] }

InvalidOrgPool ==
  { [id |-> 0, chineseName |-> <<"a">>],
    [id |-> 1, chineseName |-> << >>],
    [id |-> 0, chineseName |-> << >>] }

\* Descriptions: none, one that carries the marker of both names of OrgPool
\* (the one name is a prefix of the other), and a number.
DescPool == { DescNone, Str(<<"#", "a", "b">>), DescNumber }

SeqsUpTo(S, n) == UNION { [1..m -> S] : m \in 0..n }

\* Azure DevOps project names are unique in the host organization: project
\* number k has id k and name k.
HostProjects(descs) ==
  [k \in 1..Len(descs) |-> [id |-> k, name |-> k, description |-> descs[k]]]

\* Applications on the scan server: id > 0, fully configured before the run.
InitialServer(n) ==
  { [id |-> k, org |-> 1, name |-> k, bound |-> TRUE] : k \in 1..n }

\* ---------------------------------------------------------------- outcomes
\* A remote call either fails (transport failure or non-2xx status, an
\* exception out of _request) or answers.
CallOutcomes == {"ok", "fail"}
UrlOutcomes == {"url", "empty", "fail"}          \* remoteUrl / no repository / error
CreateOutcomes == {"ok", "fail1", "fail2"}       \* both POSTs / 1st fails / 2nd fails
ScanOutcomes == {"200", "2xx", "fail"}           \* 200 / another 2xx / error
DeleteOutcomes == {"204", "2xx", "fail"}         \* 204 / another 2xx / error

\* The outcomes in which the remote service did what was asked.
Success == {"ok", "url", "200", "204"}

VARIABLES
  tool,        \* "sync" or "cleanup": the script that runs
  configOK,    \* the required environment variables are all set
  rawOrgs,     \* the records of the organization file
  host,        \* the projects on the source-control host
  server,      \* the applications on the scan server
  nextId,      \* the id the scan server gives the next application
  pc,          \* position of the script
  orgs,        \* load_organizations(): the valid organizations
  i,           \* run loop: index of the organization (enumerate, from 1)
  total,       \* run loop: the totals
  result,      \* value returned by Sync.sync / Cleanup.cleanup
  matched,     \* Sync.sync: matched_projects
  apps,        \* Sync.sync: name -> id mapping; Cleanup.cleanup: list of apps
  j,           \* index into matched / apps of the entity being processed
  app_id,      \* Sync.sync: app_id of the project being processed (0 = None)
  counts,      \* locals created, scanned, errors / deleted, errors
  hist,        \* history: outcome of every organization processed so far
  trace,       \* history: responses received for the current organization
  log,         \* history: calls and counter contributions per entity
  server0,     \* history: the scan server before the run
  serverAtStart, \* history: the scan server when the current organization began
  remoteCalls, \* history: a remote call has been issued in this run
  failures     \* history: remote calls so far that did not answer with success

vars == << tool, configOK, rawOrgs, host, server, nextId, pc, orgs, i, total,
           result, matched, apps, j, app_id, counts, hist, trace, log,
           server0, serverAtStart, remoteCalls, failures >>

\* ---------------------------------------------------------------- helpers
SyncZero == [created |-> 0, scanned |-> 0, errors |-> 0]
CleanupZero == [deleted |-> 0, errors |-> 0]
ZeroOf(t) == IF t = "sync" THEN SyncZero ELSE CleanupZero

\* for key in total: total[key] += result[key]
AddResult(tot, res) == [key \in DOMAIN tot |-> tot[key] + res[key]]

\* total["errors"] += 1
AddError(tot) == [tot EXCEPT !.errors = @ + 1]

\* A validity test satisfied by either field alone.
ValidOrgEither(o) == o.id # 0 \/ o.chineseName # << >>

\* o.get("id") and o.get("chineseName")
ValidOrg(o) == o.id # 0 /\ o.chineseName # << >>

\* valid_orgs = [o for o in orgs if ...]
ValidOrgs(raw) == SelectSeq(raw, ValidOrg)

\* f"<label>{chinese_name}" in (p.get("description") or ""), for a description
\* that is a string or None.
IsMatch(p, chinese_name) ==
  Contains(Marker(chinese_name),
           IF p.description.kind = "str" THEN p.description.text ELSE << >>)

\* `in` applied to a truthy description that is not a string raises TypeError.
FilterRaises(all_projects) ==
  \E k \in 1..Len(all_projects) : all_projects[k].description.kind = "number"

\* A filter that keeps every project.
MatchedAll(all_projects, chinese_name) == all_projects

MatchedProjects(all_projects, chinese_name) ==
  LET Test(p) == IsMatch(p, chinese_name) IN SelectSeq(all_projects, Test)

MaxOf(S) == CHOOSE x \in S : \A y \in S : y <= x
MinOf(S) == CHOOSE x \in S : \A y \in S : x <= y

\* A listing that ignores the organization id.
AppsOfAnyOrg(srv, org_id) == srv

\* The applications the scan server lists for an organization.
AppsOfOrg(srv, org_id) == { a \in srv : a.org = org_id }

\* sync_repos.IQ.get_applications: {app["name"]: app["id"] for app in ...}; the
\* server lists in id order, so the highest id of a name is the one kept.
AppsDict(srv, org_id) ==
  LET listed == AppsOfOrg(srv, org_id)
      names == { a.name : a \in listed }
  IN [n \in names |-> MaxOf({ a.id : a \in { x \in listed : x.name = n } })]

\* cleanup_tool.IQ.get_applications: [{"name": ..., "id": ...} for app in ...]
RECURSIVE AppsList(_)
AppsList(listed) ==
  IF listed = {} THEN << >>
  ELSE LET first == CHOOSE a \in listed : a.id = MinOf({ x.id : x \in listed })
       IN << [name |-> first.name, id |-> first.id] >> \o AppsList(listed \ {first})

\* A lookup that never finds the name.
AppsGetMiss(dict, name) == 0

\* apps.get(repo_name): 0 stands for None. Application ids are never falsy.
AppsGet(dict, name) == IF name \in DOMAIN dict THEN dict[name] ELSE 0

NoEntry ==
  [url |-> "none", create |-> "none", scan |-> "none", delete |-> "none",
   nUrl |-> 0, nPost1 |-> 0, nPost2 |-> 0, nScan |-> 0, nDelete |-> 0,
   created |-> 0, scanned |-> 0, errors |-> 0, deleted |-> 0]

NoTrace == [projects |-> "none", apps |-> "none", nProjects |-> 0, nApps |-> 0]

Org == orgs[i]

\* ---------------------------------------------------------------- Init
\* The state before the script starts, for an organization file and a host
\* drawn from the given sets. The cleanup tool never looks at the host.
Setup(files, hosts) ==
  /\ tool \in {"sync", "cleanup"}
  /\ configOK \in BOOLEAN
  /\ rawOrgs \in files
  /\ \E descs \in hosts :
        /\ tool = "cleanup" => descs = << >>
        /\ host = HostProjects(descs)
  /\ \E n \in 0..MaxApps : server = InitialServer(n)
  /\ nextId = MaxApps + 1
  /\ pc = "init"
  /\ orgs = << >>
  /\ i = 0
  /\ total = ZeroOf(tool)
  /\ result = ZeroOf(tool)
  /\ matched = << >>
  /\ apps = << >>
  /\ j = 0
  /\ app_id = 0
  /\ counts = ZeroOf(tool)
  /\ hist = << >>
  /\ trace = NoTrace
  /\ log = << >>
  /\ server0 = server
  /\ serverAtStart = server
  /\ remoteCalls = FALSE
  /\ failures = 0

\* Valid organization files over every host of up to MaxProjects projects.
Init == Setup(SeqsUpTo(OrgPool, MaxOrgs), SeqsUpTo(DescPool, MaxProjects))

\* Organization files with invalid records, over two small hosts.
InitLoad ==
  Setup(SeqsUpTo(OrgPool \cup InvalidOrgPool, MaxOrgs),
        { << >>, << Str(<<"#", "a">>) >>, << DescNumber >> })

\* ---------------------------------------------------------------- run loop
\* sync_repos_main / cleanup_main, the try block of the initialisation:
\* load_config(), load_organizations(), the tool's constructor.
Initialize ==
  /\ pc = "init"
  /\ IF configOK /\ ValidOrgs(rawOrgs) # << >>
       THEN /\ orgs' = ValidOrgs(rawOrgs)
            /\ total' = ZeroOf(tool)
            /\ i' = 1
            /\ pc' = "loop"
       ELSE /\ pc' = "init_failed"
            /\ UNCHANGED << orgs, total, i >>
  /\ UNCHANGED << tool, configOK, rawOrgs, host, server, nextId, result, matched,
                  apps, j, app_id, counts, hist, trace, log, server0,
                  serverAtStart, remoteCalls, failures >>

\* What the run loop resets when it moves to the next organization: the
\* locals of the call that ended are gone.
NextOrganization ==
  /\ i' = i + 1
  /\ pc' = "loop"
  /\ matched' = << >>
  /\ apps' = << >>
  /\ j' = 0
  /\ app_id' = 0
  /\ counts' = ZeroOf(tool)
  /\ result' = ZeroOf(tool)
  /\ trace' = NoTrace
  /\ log' = << >>

\* result = tool(org); for key in total: total[key] += result[key]
RunLoopAdd ==
  /\ pc = "returned"
  /\ total' = AddResult(total, result)
  /\ hist' = Append(hist, [org |-> Org, raised |-> FALSE, result |-> result])
  /\ NextOrganization
  /\ UNCHANGED << tool, configOK, rawOrgs, host, server, nextId, orgs, server0,
                  serverAtStart, remoteCalls, failures >>

\* A run loop that an exception ends: the handler counts it and the loop stops.
RunLoopExceptBreaks ==
  /\ pc = "raised"
  /\ total' = [total EXCEPT !.errors = @ + 1]
  /\ hist' = Append(hist, [org |-> Org, raised |-> TRUE, result |-> ZeroOf(tool)])
  /\ i' = Len(orgs) + 1
  /\ pc' = "loop"
  /\ matched' = << >>
  /\ apps' = << >>
  /\ j' = 0
  /\ app_id' = 0
  /\ counts' = ZeroOf(tool)
  /\ result' = ZeroOf(tool)
  /\ trace' = NoTrace
  /\ log' = << >>
  /\ UNCHANGED << tool, configOK, rawOrgs, host, server, nextId, orgs, server0,
                  serverAtStart, remoteCalls, failures >>

\* except Exception: total["errors"] += 1
RunLoopExcept ==
  /\ pc = "raised"
  /\ total' = AddError(total)
  /\ hist' = Append(hist, [org |-> Org, raised |-> TRUE, result |-> ZeroOf(tool)])
  /\ NextOrganization
  /\ UNCHANGED << tool, configOK, rawOrgs, host, server, nextId, orgs, server0,
                  serverAtStart, remoteCalls, failures >>

\* The loop is exhausted: the summary is logged.
MainFinish ==
  /\ pc = "loop"
  /\ i > Len(orgs)
  /\ pc' = "done"
  /\ UNCHANGED << tool, configOK, rawOrgs, host, server, nextId, orgs, i, total,
                  result, matched, apps, j, app_id, counts, hist, trace, log,
                  server0, serverAtStart, remoteCalls, failures >>

\* ---------------------------------------------------------------- remote calls
\* The environment answers a remote call; at most MaxFailures calls of a run
\* answer with anything but success.
Answer(outcome) ==
  /\ outcome \notin Success => failures < MaxFailures
  /\ failures' = IF outcome \in Success THEN failures ELSE failures + 1
  /\ remoteCalls' = TRUE

\* AzureDevOps.get_projects: the list, [] on any exception.
GetProjects(outcome) == IF outcome = "ok" THEN host ELSE << >>

\* AzureDevOps.get_repo_url: remoteUrl of the first repository, None when there
\* is none or on any exception.
GetRepoUrl(outcome) == IF outcome = "url" THEN "url" ELSE "None"

\* A create_application that returns the id once the first POST succeeded,
\* whatever the second does.
CreateApplicationAfterFirstPost(outcome, id) == IF outcome = "fail1" THEN 0 ELSE id

\* IQ.create_application: the new id, None (0) when either POST failed.
CreateApplication(outcome, id) == IF outcome = "ok" THEN id ELSE 0

\* IQ.scan_application: response.status_code == 200, False on any exception.
ScanApplication(outcome) == outcome = "200"

\* IQ.delete_application: response.status_code == 204, False on any exception.
DeleteApplication(outcome) == outcome = "204"

\* A create_application that deletes the application again when the
\* source-control POST fails.
CreatedOrRolledBack(srv, id, org_id, name, bound) ==
  IF bound
    THEN srv \cup { [id |-> id, org |-> org_id, name |-> name, bound |-> bound] }
    ELSE srv

\* The scan server after the first POST of create_application succeeded.
Created(srv, id, org_id, name, bound) ==
  srv \cup { [id |-> id, org |-> org_id, name |-> name, bound |-> bound] }

\* The scan server after a DELETE answered with a 2xx status.
Deleted(srv, id) == { a \in srv : a.id # id }

\* True / False as the history records them.
PyBool(b) == IF b THEN "True" ELSE "False"

\* The history of entity j, with the call and what it returned added.
Logged(entry, call, returned) ==
  CASE call = "url" -> [entry EXCEPT !.url = returned, !.nUrl = @ + 1]
    [] call = "create" ->
         [entry EXCEPT !.create = returned, !.nPost1 = @ + 1,
                       !.nPost2 = IF returned = "fail1" THEN @ ELSE @ + 1]
    [] call = "scan" -> [entry EXCEPT !.scan = returned, !.nScan = @ + 1]
    [] call = "delete" -> [entry EXCEPT !.delete = returned, !.nDelete = @ + 1]

\* created += 1, scanned += 1, errors += 1 or deleted += 1 for entity j.
Count(cnt, field) == [cnt EXCEPT ![field] = @ + 1]

\* A loop body that counts a scan as done whatever scan_application returned.
ScanFieldAlwaysScanned(scan_success) == "scanned"

\* if not scan_success: errors += 1 ... else scanned += 1
ScanField(scan_success) == IF scan_success THEN "scanned" ELSE "errors"

\* if delete_application(...): deleted += 1 else: errors += 1
DeleteField(done) == IF done THEN "deleted" ELSE "errors"

\* A loop that takes the same entity again.
ContinueSame(k) == k

\* `continue`, or the end of the loop body: on to the next entity.
Continue(k) == k + 1

\* ---------------------------------------------------------------- Sync.sync
\* Sync.sync up to the early return: get_projects(), the filter, and either
\* the return of zero counts, a TypeError out of the filter, or the way on.
SyncGetProjects(outcome) ==
  /\ pc = "loop"
  /\ tool = "sync"
  /\ i <= Len(orgs)
  /\ Answer(outcome)
  /\ LET all_projects == GetProjects(outcome)
         matched_projects == MatchedProjects(all_projects, Org.chineseName)
     IN IF FilterRaises(all_projects)
          THEN /\ pc' = "raised"
               /\ UNCHANGED << matched, result >>
          ELSE IF matched_projects = << >>
                 THEN /\ result' = SyncZero
                      /\ pc' = "returned"
                      /\ UNCHANGED matched
                 ELSE /\ matched' = matched_projects
                      /\ pc' = "get_apps"
                      /\ UNCHANGED result
  /\ trace' = [trace EXCEPT !.projects = outcome, !.nProjects = @ + 1]
  /\ serverAtStart' = server
  /\ UNCHANGED << tool, configOK, rawOrgs, host, server, nextId, orgs, i, total,
                  apps, j, app_id, counts, hist, log, server0 >>

\* apps = self.iq.get_applications(org_id) or {}; created = scanned = errors = 0
SyncGetApplications(outcome) ==
  /\ pc = "get_apps"
  /\ Answer(outcome)
  /\ apps' = IF outcome = "ok" THEN AppsDict(server, Org.id) ELSE << >>
  /\ counts' = SyncZero
  /\ j' = 1
  /\ log' = [k \in 1..Len(matched) |-> NoEntry]
  /\ trace' = [trace EXCEPT !.apps = outcome, !.nApps = @ + 1]
  /\ pc' = "project"
  /\ UNCHANGED << tool, configOK, rawOrgs, host, server, nextId, orgs, i, total,
                  result, matched, app_id, hist, server0, serverAtStart >>

\* The head of the loop body: get_repo_url(), and with a URL apps.get(repo_name).
SyncGetRepoUrl(outcome) ==
  /\ pc = "project"
  /\ j <= Len(matched)
  /\ Answer(outcome)
  /\ LET clone_url == GetRepoUrl(outcome)
     IN IF clone_url = "None"
          THEN /\ counts' = Count(counts, "errors")
               /\ log' = [log EXCEPT ![j] = Count(Logged(@, "url", clone_url), "errors")]
               /\ j' = Continue(j)
               /\ UNCHANGED << app_id, pc >>
          ELSE /\ app_id' = AppsGet(apps, matched[j].name)
               /\ pc' = IF app_id' = 0 THEN "create" ELSE "scan"
               /\ log' = [log EXCEPT ![j] = Logged(@, "url", clone_url)]
               /\ UNCHANGED << counts, j >>
  /\ UNCHANGED << tool, configOK, rawOrgs, host, server, nextId, orgs, i, total,
                  result, matched, apps, hist, trace, server0, serverAtStart >>

\* if not app_id: app_id = create_application(...); the two POSTs. The
\* publicId sent with the first POST (the lower-cased, hyphenated name) plays
\* no part in what the script does next and is left out.
SyncCreateApplication(outcome) ==
  /\ pc = "create"
  /\ Answer(outcome)
  /\ IF outcome = "fail1"
       THEN UNCHANGED << server, nextId >>
       ELSE /\ server' = Created(server, nextId, Org.id, matched[j].name,
                                 outcome = "ok")
            /\ nextId' = nextId + 1
  /\ app_id' = CreateApplication(outcome, nextId)
  /\ IF app_id' = 0
       THEN /\ counts' = Count(counts, "errors")
            /\ log' = [log EXCEPT ![j] = Count(Logged(@, "create", outcome), "errors")]
            /\ j' = Continue(j)
            /\ pc' = "project"
       ELSE /\ counts' = Count(counts, "created")
            /\ log' = [log EXCEPT ![j] = Count(Logged(@, "create", outcome), "created")]
            /\ pc' = "scan"
            /\ UNCHANGED j
  /\ UNCHANGED << tool, configOK, rawOrgs, host, orgs, i, total, result, matched,
                  apps, hist, trace, server0, serverAtStart >>

\* scan_success = scan_application(...); errors += 1 or scanned += 1.
\* create_application and scan_application catch every exception themselves,
\* so nothing in the try block of the loop body reaches its handler.
SyncScanApplication(outcome) ==
  /\ pc = "scan"
  /\ Answer(outcome)
  /\ LET scan_success == ScanApplication(outcome)
         field == ScanField(scan_success)
     IN /\ counts' = Count(counts, field)
        /\ log' = [log EXCEPT ![j] = Count(Logged(@, "scan", PyBool(scan_success)), field)]
  /\ j' = Continue(j)
  /\ app_id' = 0
  /\ pc' = "project"
  /\ UNCHANGED << tool, configOK, rawOrgs, host, server, nextId, orgs, i, total,
                  result, matched, apps, hist, trace, server0, serverAtStart >>

\* A Sync.sync that gives up at the first project that fails.
SyncReturnOnError ==
  /\ pc = "project"
  /\ j > Len(matched) \/ counts.errors > 0
  /\ result' = counts
  /\ pc' = "returned"
  /\ UNCHANGED << tool, configOK, rawOrgs, host, server, nextId, orgs, i, total,
                  matched, apps, j, app_id, counts, hist, trace, log, server0,
                  serverAtStart, remoteCalls, failures >>

\* return {"created": created, "scanned": scanned, "errors": errors}
SyncReturn ==
  /\ pc = "project"
  /\ j > Len(matched)
  /\ result' = counts
  /\ pc' = "returned"
  /\ UNCHANGED << tool, configOK, rawOrgs, host, server, nextId, orgs, i, total,
                  matched, apps, j, app_id, counts, hist, trace, log, server0,
                  serverAtStart, remoteCalls, failures >>

\* ---------------------------------------------------------------- Cleanup.cleanup
\* apps = get_applications(org_id); if not apps: return zero counts
CleanupGetApplications(outcome) ==
  /\ pc = "loop"
  /\ tool = "cleanup"
  /\ i <= Len(orgs)
  /\ Answer(outcome)
  /\ LET listed == IF outcome = "ok" THEN AppsList(AppsOfOrg(server, Org.id))
                   ELSE << >>
     IN IF listed = << >>
          THEN /\ result' = CleanupZero
               /\ pc' = "returned"
               /\ UNCHANGED << apps, j, log >>
          ELSE /\ apps' = listed
               /\ j' = 1
               /\ log' = [k \in 1..Len(listed) |-> NoEntry]
               /\ pc' = "delete"
               /\ UNCHANGED result
  /\ counts' = CleanupZero
  /\ trace' = [trace EXCEPT !.apps = outcome, !.nApps = @ + 1]
  /\ serverAtStart' = server
  /\ UNCHANGED << tool, configOK, rawOrgs, host, server, nextId, orgs, i, total,
                  matched, app_id, hist, server0 >>

\* An exception that escapes Cleanup.cleanup. No statement of cleanup raises
\* one by itself; the handler of cleanup_main is there for a fault of the
\* runtime (MemoryError and the like), which is what this action stands for.
CleanupFault ==
  /\ pc = "loop"
  /\ tool = "cleanup"
  /\ i <= Len(orgs)
  /\ pc' = "raised"
  /\ serverAtStart' = server
  /\ UNCHANGED << tool, configOK, rawOrgs, host, server, nextId, orgs, i, total,
                  result, matched, apps, j, app_id, counts, hist, trace, log,
                  server0, remoteCalls, failures >>

\* if delete_application(app["id"]): deleted += 1 else: errors += 1
CleanupDeleteApplication(outcome) ==
  /\ pc = "delete"
  /\ j <= Len(apps)
  /\ Answer(outcome)
  /\ server' = IF outcome = "fail" THEN server ELSE Deleted(server, apps[j].id)
  /\ LET done == DeleteApplication(outcome)
         field == DeleteField(done)
     IN /\ counts' = Count(counts, field)
        /\ log' = [log EXCEPT ![j] = Count(Logged(@, "delete", PyBool(done)), field)]
  /\ j' = Continue(j)
  /\ UNCHANGED << tool, configOK, rawOrgs, host, nextId, pc, orgs, i, total,
                  result, matched, apps, app_id, hist, trace, server0,
                  serverAtStart >>

\* A cleanup that gives up at the first deletion that fails.
CleanupReturnOnError ==
  /\ pc = "delete"
  /\ j > Len(apps) \/ counts.errors > 0
  /\ result' = counts
  /\ pc' = "returned"
  /\ UNCHANGED << tool, configOK, rawOrgs, host, server, nextId, orgs, i, total,
                  matched, apps, j, app_id, counts, hist, trace, log, server0,
                  serverAtStart, remoteCalls, failures >>

\* return {"deleted": deleted, "errors": errors}
CleanupReturn ==
  /\ pc = "delete"
  /\ j > Len(apps)
  /\ result' = counts
  /\ pc' = "returned"
  /\ UNCHANGED << tool, configOK, rawOrgs, host, server, nextId, orgs, i, total,
                  matched, apps, j, app_id, counts, hist, trace, log, server0,
                  serverAtStart, remoteCalls, failures >>

\* ---------------------------------------------------------------- specification
Next ==
  \/ Initialize
  \/ \E o \in CallOutcomes : SyncGetProjects(o)
  \/ \E o \in CallOutcomes : SyncGetApplications(o)
  \/ \E o \in UrlOutcomes : SyncGetRepoUrl(o)
  \/ \E o \in CreateOutcomes : SyncCreateApplication(o)
  \/ \E o \in ScanOutcomes : SyncScanApplication(o)
  \/ SyncReturn
  \/ \E o \in CallOutcomes : CleanupGetApplications(o)
  \/ CleanupFault
  \/ \E o \in DeleteOutcomes : CleanupDeleteApplication(o)
  \/ CleanupReturn
  \/ RunLoopAdd
  \/ RunLoopExcept
  \/ MainFinish

Spec == Init /\ [][Next]_vars

SpecLoad == InitLoad /\ [][Next]_vars

\* ---------------------------------------------------------------- properties
\* Sync.sync is in or just past its loop over the matched projects.
InSyncLoop ==
  /\ tool = "sync"
  /\ pc \in {"project", "create", "scan", "returned"}
  /\ matched # << >>

\* Cleanup.cleanup is in or just past its loop over the listed applications.
InCleanupLoop ==
  /\ tool = "cleanup"
  /\ pc \in {"delete", "returned"}
  /\ apps # << >>

\* The loop has finished with entity k.
Finished(k) == k \in DOMAIN log /\ k < j

\* An application of the project's exact name is in the fetched list.
Listed(k) == matched[k].name \in DOMAIN apps

CreateFailed(e) == e.create \in {"fail1", "fail2"}

\* What C1 says of a project without a same-named application.
CreatePath(e) ==
  /\ e.nPost1 = 1
  /\ CreateFailed(e) =>
       e.errors = 1 /\ e.created = 0 /\ e.scanned = 0 /\ e.nScan = 0
  /\ e.create = "ok" =>
       e.nScan = 1 /\ e.created = 1 /\ e.scanned + e.errors = 1

\* C1, as claimed: every matched project without a same-named application in
\* the fetched list gets a create call; a failed create gives 1 error, nothing
\* created or scanned and no scan call; a successful one gives a scan call,
\* 1 created and exactly one of 1 scanned or 1 error.
C1_AsClaimed ==
  InSyncLoop => \A k \in DOMAIN log : Finished(k) /\ ~Listed(k) => CreatePath(log[k])

\* C1, amended: the same for every such project whose repository URL was
\* resolved; a project whose repository URL is absent gets no create call and
\* no scan call, and contributes exactly 1 error.
C1_CreatePath ==
  InSyncLoop =>
    \A k \in DOMAIN log :
      Finished(k) /\ ~Listed(k) =>
        /\ log[k].url = "url" => CreatePath(log[k])
        /\ log[k].url = "None" =>
             /\ log[k].nPost1 = 0 /\ log[k].nScan = 0
             /\ log[k].errors = 1 /\ log[k].created = 0 /\ log[k].scanned = 0

\* A project without a listed application was created and its scan failed,
\* after another one's create failed.
C1_Witness ==
  /\ InSyncLoop
  /\ \E k \in DOMAIN log :
       /\ Finished(k) /\ ~Listed(k) /\ log[k].create = "ok" /\ log[k].scan = "False"
       /\ log[k].created = 1 /\ log[k].errors = 1
  /\ \E k \in DOMAIN log : Finished(k) /\ ~Listed(k) /\ CreateFailed(log[k])

\* C2, as claimed: for every matched project with a same-named application in
\* the fetched list no create call is issued, a scan call is attempted, and the
\* project adds 0 to created and exactly 1 to exactly one of scanned, errors.
C2_AsClaimed ==
  InSyncLoop =>
    \A k \in DOMAIN log :
      Finished(k) /\ Listed(k) =>
        /\ log[k].nPost1 = 0 /\ log[k].nPost2 = 0
        /\ log[k].nScan = 1
        /\ log[k].created = 0
        /\ log[k].scanned + log[k].errors = 1

\* C2, amended: no create call is issued and the counters are as claimed; the
\* scan call is attempted exactly when the repository URL was resolved (with
\* an absent URL the project's one error comes without any scan call).
C2_ExistingPath ==
  InSyncLoop =>
    \A k \in DOMAIN log :
      Finished(k) /\ Listed(k) =>
        /\ log[k].nPost1 = 0 /\ log[k].nPost2 = 0
        /\ log[k].nScan = IF log[k].url = "url" THEN 1 ELSE 0
        /\ log[k].created = 0
        /\ log[k].scanned + log[k].errors = 1

\* Two matched projects with listed applications were processed in one call,
\* one scanned and one not.
C2_Witness ==
  /\ InSyncLoop
  /\ pc = "returned"
  /\ \E k, m \in DOMAIN log :
       /\ k # m /\ Listed(k) /\ Listed(m)
       /\ log[k].scanned = 1 /\ log[m].errors = 1

\* The number of deletions of the current call that returned False.
FailedDeletions == Cardinality({ k \in DOMAIN log : log[k].delete = "False" })

\* C3: Cleanup.cleanup over a listing of N applications of which K deletions
\* fail returns {deleted: N-K, errors: K}; every listed application got its
\* deletion attempt.
C3_CleanupCounts ==
  InCleanupLoop /\ pc = "returned" =>
    /\ \A k \in DOMAIN apps : log[k].nDelete = 1
    /\ result.errors = FailedDeletions
    /\ result.deleted + FailedDeletions = Len(apps)
    /\ Len(apps) = Cardinality(AppsOfOrg(serverAtStart, Org.id))

\* Two applications were listed, the deletion of the first failed and the
\* second was deleted all the same.
C3_Witness ==
  /\ InCleanupLoop
  /\ pc = "returned"
  /\ Len(apps) = 2
  /\ log[1].delete = "False"
  /\ log[2].delete = "True"
  /\ result = [deleted |-> 1, errors |-> 1]

\* The field-wise sum of the results of the organizations that returned, plus
\* 1 error for each one that raised.
RECURSIVE SumOfOutcomes(_)
SumOfOutcomes(h) ==
  IF h = << >> THEN ZeroOf(tool)
  ELSE LET rest == SumOfOutcomes(SubSeq(h, 1, Len(h) - 1))
           last == h[Len(h)]
       IN IF last.raised
            THEN [key \in DOMAIN rest |->
                    IF key = "errors" THEN rest[key] + 1 ELSE rest[key]]
            ELSE [key \in DOMAIN rest |-> rest[key] + last.result[key]]

\* C4: in both run loops the organizations are processed once each in list
\* order; the totals are the field-wise sum of the results returned plus 1
\* error per organization that raised; after the loop every organization of
\* the list has been processed, whatever raised before it.
C4_RunLoopTotals ==
  pc \notin {"init", "init_failed"} =>
    /\ Len(hist) = (IF pc = "done" THEN Len(orgs) ELSE i - 1)
    /\ \A k \in DOMAIN hist : hist[k].org = orgs[k]
    /\ total = SumOfOutcomes(hist)

\* The loop ended after an organization that raised was followed by one that
\* returned a result with a nonzero counter.
C4_Witness ==
  /\ pc = "done"
  /\ Len(hist) = 2
  /\ hist[1].raised
  /\ ~hist[2].raised
  /\ hist[2].result.errors = 1
  /\ total.errors = 2

\* The listing calls of the current organization that failed.
FailedListings ==
  (IF trace.projects = "fail" THEN 1 ELSE 0) + (IF trace.apps = "fail" THEN 1 ELSE 0)

\* A call for the entity returned its failure value: None for a repository
\* URL or a created id, False for a scan or a deletion.
FailureReturned(e) ==
  e.url = "None" \/ CreateFailed(e) \/ e.scan = "False" \/ e.delete = "False"

FailureReturns == Cardinality({ k \in DOMAIN log : FailureReturned(log[k]) })

\* C5, as claimed: every remote call that failed while an organization was
\* processed, the listing calls included, is counted in the errors of the
\* organization's result.
C5_AsClaimed ==
  pc = "returned" => result.errors >= FailedListings + FailureReturns

\* C5, amended: a failing call never raises out of its wrapper but gives the
\* failure value; each failure value of a per-entity call (repository URL,
\* create, scan, delete) is counted as exactly one error; a failed listing
\* call is not counted: the empty listing is processed like an empty answer
\* (a failed project listing, or a failed application listing of cleanup,
\* gives a result of all zeros).
C5_FailuresCounted ==
  /\ GetProjects("fail") = << >>
  /\ GetRepoUrl("fail") = "None"
  /\ \A id \in 1..nextId : CreateApplication("fail1", id) = 0
                           /\ CreateApplication("fail2", id) = 0
  /\ ~ScanApplication("fail")
  /\ ~DeleteApplication("fail")
  /\ pc = "returned" => result.errors = FailureReturns
  /\ pc = "returned" /\ (trace.projects = "fail" \/ (tool = "cleanup" /\ trace.apps = "fail"))
       => result = ZeroOf(tool)
  /\ pc = "raised" => FailedListings = 0

\* Sync.sync returned without an error although its application listing had
\* failed: the matched project was created and scanned.
C5_Witness ==
  /\ pc = "returned"
  /\ tool = "sync"
  /\ trace.apps = "fail"
  /\ result.errors = 0
  /\ result.created >= 1
  /\ result.scanned >= 1

\* What C6 says of the current state: a create that failed at either POST
\* returned None and gave 1 error, nothing created and no scan call; after a
\* failure of the second POST the application is on the server, unbound.
C6_State ==
  /\ \A id \in 1..nextId : CreateApplication("fail1", id) = 0
                           /\ CreateApplication("fail2", id) = 0
  /\ InSyncLoop =>
       \A k \in DOMAIN log :
         /\ Finished(k) /\ CreateFailed(log[k]) =>
              /\ log[k].errors = 1 /\ log[k].created = 0 /\ log[k].scanned = 0
              /\ log[k].nScan = 0 /\ log[k].nDelete = 0
         /\ log[k].create = "fail2" =>
              \E a \in server :
                a.org = Org.id /\ a.name = matched[k].name /\ ~a.bound

\* C6: a create_application that fails at either step returns None, counts 1
\* error and 0 created, is followed by no scan call and by no compensating
\* delete: the sync tool never removes or changes an application of the scan
\* server, so an application left unbound stays as it is.
C6_PartialCreate == [] C6_State /\ [][tool = "sync" => server \subseteq server']_vars

\* The run ended with an unbound application on the scan server and nothing
\* counted as created.
C6_Witness ==
  /\ pc = "done"
  /\ tool = "sync"
  /\ \E a \in server : ~a.bound
  /\ total.created = 0
  /\ total.errors >= 1

\* C7: no retries. While an organization is processed there has been one
\* project listing and at most one application listing; per matched project
\* at most one repository-URL lookup, one create operation (each POST at most
\* once) and one scan request; per listed application of cleanup exactly one
\* delete request once the loop is past it.
C7_NoRetries ==
  /\ tool = "sync" /\ pc \in {"get_apps", "project", "create", "scan", "returned", "raised"} =>
       trace.nProjects = 1 /\ trace.nApps <= 1
  /\ InSyncLoop =>
       /\ trace.nApps = 1
       /\ \A k \in DOMAIN log :
            /\ log[k].nUrl <= 1 /\ log[k].nPost1 <= 1
            /\ log[k].nPost2 <= 1 /\ log[k].nScan <= 1
            /\ Finished(k) => log[k].nUrl = 1
  /\ tool = "cleanup" /\ pc \in {"delete", "returned"} =>
       trace.nApps = 1 /\ trace.nProjects = 0
  /\ InCleanupLoop =>
       \A k \in DOMAIN log :
         /\ log[k].nDelete <= 1
         /\ Finished(k) => log[k].nDelete = 1

\* Sync.sync returned after two projects that both failed, one at the
\* repository URL and one at the create.
C7_Witness ==
  /\ InSyncLoop
  /\ pc = "returned"
  /\ \E k, m \in DOMAIN log :
       /\ log[k].url = "None" /\ log[k].nUrl = 1
       /\ log[m].create = "fail1" /\ log[m].nPost1 = 1 /\ log[m].nPost2 = 0
  /\ result.errors = 2

\* Every record of the organization file lacks a non-empty id or name.
AllInvalid(raw) ==
  \A k \in DOMAIN raw : raw[k].id = 0 \/ raw[k].chineseName = << >>

\* C8: with an empty or all-invalid organization list, or with required
\* configuration missing, initialisation fails, the run loop is never entered
\* and no remote call is issued; every organization that reaches the run loop
\* has a non-empty id and a non-empty name.
C8_InitFailsBeforeRemote ==
  /\ ~configOK \/ AllInvalid(rawOrgs) =>
       /\ pc \in {"init", "init_failed"}
       /\ ~remoteCalls
       /\ server = server0
       /\ orgs = << >>
  /\ pc = "init_failed" => ~remoteCalls
  /\ \A k \in DOMAIN orgs : orgs[k].id # 0 /\ orgs[k].chineseName # << >>
  /\ pc \notin {"init", "init_failed"} => orgs # << >>

\* Initialisation failed on a list of two records, one without id and one
\* without name, with the configuration complete.
C8_Witness ==
  /\ pc = "init_failed"
  /\ configOK
  /\ Len(rawOrgs) = 2
  /\ rawOrgs[1].id = 0
  /\ rawOrgs[2].chineseName = << >>
  /\ rawOrgs[2].id # 0

\* No project of the host carries the marker of the current organization.
NoMarkedProject ==
  \A k \in DOMAIN host :
    ~(/\ host[k].description.kind = "str"
      /\ Contains(Label \o Org.chineseName, host[k].description.text))

\* C9: when Sync.sync finds no project with the organization's marker it
\* returns all zeros without an application listing, a create or a scan, and
\* the scan server is as it was; Cleanup.cleanup with an empty application
\* listing returns all zeros without a delete.
C9_NothingToDo ==
  /\ /\ tool = "sync"
     /\ pc \in {"get_apps", "project", "create", "scan", "returned"}
     /\ trace.projects = "fail" \/ NoMarkedProject
     => /\ pc = "returned"
        /\ result = SyncZero
        /\ log = << >>
        /\ trace.nApps = 0
        /\ server = serverAtStart
  /\ /\ tool = "cleanup"
     /\ pc \in {"delete", "returned"}
     /\ trace.apps = "fail" \/ AppsOfOrg(serverAtStart, Org.id) = {}
     => /\ pc = "returned"
        /\ result = CleanupZero
        /\ log = << >>
        /\ server = serverAtStart

\* Sync.sync returned zeros for a host with projects none of which carries the
\* marker, with applications on the scan server.
C9_Witness ==
  /\ tool = "sync"
  /\ pc = "returned"
  /\ trace.projects = "ok"
  /\ host # << >>
  /\ NoMarkedProject
  /\ server # {}
  /\ result = SyncZero

\* The calls issued for a project and what it added to the counters.
Summary(e) ==
  [nUrl |-> e.nUrl, nPost1 |-> e.nPost1, nPost2 |-> e.nPost2, nScan |-> e.nScan,
   created |-> e.created, scanned |-> e.scanned, errors |-> e.errors]

\* Sync.sync's loop body as a function (lines 252-291): the calls and the
\* contributions of a project of the given name, for the application listing
\* `dict` and the responses recorded in e (a call that e does not record is
\* taken to succeed).
Reference(dict, name, e) ==
  LET scanned == IF e.scan = "False" THEN 0 ELSE 1
      entry(p1, p2, sc, cr, s, er) ==
        [nUrl |-> 1, nPost1 |-> p1, nPost2 |-> p2, nScan |-> sc,
         created |-> cr, scanned |-> s, errors |-> er]
  IN IF e.url = "None" THEN entry(0, 0, 0, 0, 0, 1)
     ELSE IF name \in DOMAIN dict THEN entry(0, 0, 1, 0, scanned, 1 - scanned)
     ELSE IF e.create = "fail1" THEN entry(1, 0, 0, 0, 0, 1)
     ELSE IF e.create = "fail2" THEN entry(1, 1, 0, 0, 0, 1)
     ELSE entry(1, 1, 1, 1, scanned, 1 - scanned)

\* The current call of Sync.sync did, project by project and in its result,
\* what it does for the recorded responses on a scan server in state srv.
SameAsOn(srv) ==
  LET dict == IF trace.apps = "ok" THEN AppsDict(srv, Org.id) ELSE << >>
      ref == [k \in DOMAIN log |-> Reference(dict, matched[k].name, log[k])]
  IN /\ \A k \in DOMAIN log : Summary(log[k]) = ref[k]
     /\ \A f \in {"created", "scanned", "errors"} :
          result[f] = Cardinality({ k \in DOMAIN log : ref[k][f] = 1 })

SyncReturned == tool = "sync" /\ pc = "returned"

\* C10, as claimed: the calls issued for an organization and its result are
\* those of a run in which it is the first organization, that is on the scan
\* server as it was before the run, whatever was processed before it.
C10_AsClaimed == SyncReturned => SameAsOn(server0)

\* C10, amended: Sync.sync keeps nothing from one organization to the next;
\* its calls and result are determined by the organization, the responses it
\* gets and the scan server's state when it starts. They are those of a run in
\* which it is first when no earlier organization of the list has its id; an
\* earlier one with the same id changes them through the scan server (what it
\* created is listed as existing).
C10_Independence ==
  SyncReturned =>
    /\ matched = MatchedProjects(GetProjects(trace.projects), Org.chineseName)
    /\ SameAsOn(serverAtStart)
    /\ (\A k \in 1..(i - 1) : orgs[k].id # Org.id) => SameAsOn(server0)

\* The second organization, with another id than the first, created an
\* application for the project the first had created one for.
C10_Witness ==
  /\ SyncReturned
  /\ i = 2
  /\ orgs[1].id # orgs[2].id
  /\ hist[1].result.created = 1
  /\ result.created = 1
  /\ Cardinality(server) > Cardinality(server0) + 1

\* The matched projects of the current call without an application of their
\* name in the fetched list.
Unlisted == { k \in DOMAIN matched : ~Listed(k) }

====
